---- MODULE Spec2Model ----
(***************************************************************************)
(* Model of the recommendation lookup of app.py: the catalog `movies`,     *)
(* the precomputed `similarity` matrix, the start-up alignment check, the  *)
(* function recommend() and the "Recommend" button handler that renders    *)
(* the cards.                                                              *)
(*                                                                         *)
(* Indices are 0-based as in the Python code; TLA+ sequences are 1-based,  *)
(* so the catalog item with index i is movies[i + 1].  The DataFrame has   *)
(* its default index 0..N-1, so a label of movies.index is also the        *)
(* position used by movies.iloc and by the matrix.                         *)
(***************************************************************************)
EXTENDS Integers, Sequences, FiniteSets

VARIABLES
    movies,          \* the catalog (lines 101-113): items [title, movie_id]
    similarity,      \* the matrix (line 102): [found, rows]; found is FALSE for None
    len_sim,         \* len_sim of line 238, -1 for None
    diag_msg,        \* diag_msg of line 238
    pc,              \* "start" before check_alignment, "idle", "render" inside the handler
    selected_movie,  \* the title of the last call of recommend
    names,           \* names of line 484
    posters,         \* posters of line 484
    rec_idx,         \* the idx of each entry appended by the loop of lines 463-473
    cards,           \* the cards of lines 489-522
    rerun            \* the last call repeated the query before it and got other posters

vars == <<movies, similarity, len_sim, diag_msg, pc, selected_movie,
          names, posters, rec_idx, cards, rerun>>

(***************************************************************************)
(* Bounds of the model and constants of the program.                       *)
(***************************************************************************)
\* largest catalog of the families that vary titles, shapes and cell kinds
MaxN == 3
\* catalog size of the family with long rows (more candidates than the cut)
MaxLong == 7
\* recommend() keeps cleaned[:5]
TopK == 5

Min(a, b) == IF a < b THEN a ELSE b

(***************************************************************************)
(* Values.                                                                 *)
(***************************************************************************)
\* movie_id None (also what `if not movie_id` treats as absent)
NoneId == 0

\* a matrix cell, as Python sees it before float()
NoneCell == [tag |-> "None", v |-> 0]
NaNCell == [tag |-> "nan", v |-> 0]
InfCell == [tag |-> "inf", v |-> 0]
NegInfCell == [tag |-> "-inf", v |-> 0]
\* a string float() cannot parse, e.g. "abc"
StrCell == [tag |-> "str", v |-> 0]
\* a nested sequence met where a scalar is expected
SeqCell == [tag |-> "seq", v |-> 0]
\* a number
Num(n) == [tag |-> "num", v |-> n]
\* a string float() parses, e.g. "2"
NumStr(n) == [tag |-> "numstr", v |-> n]

\* Python floats
Fin(n) == [kind |-> "fin", v |-> n]
FNaN == [kind |-> "nan", v |-> 0]
FInf == [kind |-> "inf", v |-> 0]
FNegInf == [kind |-> "-inf", v |-> 0]

\* a < b on Python floats (every comparison with NaN is False)
FloatLT(a, b) ==
    CASE a.kind = "nan" \/ b.kind = "nan" -> FALSE
      [] a.kind = "-inf" -> b.kind # "-inf"
      [] a.kind = "inf" -> FALSE
      [] OTHER -> b.kind = "inf" \/ (b.kind = "fin" /\ a.v < b.v)

\* poster URLs
PLACEHOLDER == [kind |-> "placeholder", id |-> 0]
LOCAL_FALLBACK_POSTER == [kind |-> "local", id |-> 0]
TmdbPoster(movie_id) == [kind |-> "tmdb", id |-> movie_id]

\* diagnostics of check_alignment
NoDiag == ""
NotFoundDiag == "similarity matrix not found"
MismatchDiag == "Warning: length mismatch"

\* selected_movie before the first click
NoSelection == "(none)"
\* a title no catalog item carries
UnknownTitle == "Z"

(***************************************************************************)
(* recommend(), lines 407-475, one operator per step.                      *)
(***************************************************************************)
RECURSIVE FindFrom(_, _, _)
FindFrom(ms, movie, i) ==
    IF i > Len(ms) THEN <<>>
    ELSE (IF ms[i].title = movie THEN <<i - 1>> ELSE <<>>) \o FindFrom(ms, movie, i + 1)

\* mutant: an unknown title falls back to the first catalog item
FindIdxsDefaultFirst(ms, movie) ==
    IF FindFrom(ms, movie, 1) = <<>> THEN <<0>> ELSE FindFrom(ms, movie, 1)

\* idxs = movies.index[movies["title"] == movie].tolist()
FindIdxs(ms, movie) == FindFrom(ms, movie, 1)

\* mutant: the last match is used
LastMatch(idxs) == idxs[Len(idxs)]

\* movie_index = idxs[0]
FirstMatch(idxs) == idxs[1]

\* similarity[movie_index] raises IndexError unless the row exists
HasRow(sim, movie_index) == movie_index + 1 \in 1..Len(sim.rows)

\* len(row)
RowLen(row) == IF row.wrapped THEN 1 ELSE Len(row.cells)

\* list(enumerate(x)) for a sequence of cells
Enumerate(cells) == [i \in 1..Len(cells) |-> <<i - 1, cells[i]>>]

\* distances: the branches of lines 427-436. A container of length 1 that is
\* enumerated itself yields one pair (0, the inner row); float() of the inner
\* row raises for a list, and where it does not (an array of one element, in
\* a catalog of one item) index 0 is the seed, which is removed all the same.
Distances(row, n) ==
    IF RowLen(row) = n \/ row.kind = "list"
    THEN (IF row.wrapped THEN <<<<0, SeqCell>>>> ELSE Enumerate(row.cells))
    ELSE IF row.wrapped
         THEN Enumerate(row.cells)       \* inner = row[0] is the real row
         ELSE Enumerate(row.cells)       \* row[0] is a scalar or missing: list(row)

\* float(s): ok is FALSE where Python raises TypeError or ValueError
ToFloat(s) ==
    CASE s.tag = "num" -> [ok |-> TRUE, val |-> Fin(s.v)]
      [] s.tag = "numstr" -> [ok |-> TRUE, val |-> Fin(s.v)]
      [] s.tag = "nan" -> [ok |-> TRUE, val |-> FNaN]
      [] s.tag = "inf" -> [ok |-> TRUE, val |-> FInf]
      [] s.tag = "-inf" -> [ok |-> TRUE, val |-> FNegInf]
      [] OTHER -> [ok |-> FALSE, val |-> FNaN]

\* mutant: the NaN test is lost
IsNanNever(val) == FALSE

\* math.isnan(val)
IsNan(val) == val.kind = "nan"

\* one pass of the loop of lines 442-452: TRUE when (i, val) is appended
Keeps(s) ==
    /\ s.tag # "None"
    /\ ToFloat(s).ok
    /\ ~IsNan(ToFloat(s).val)

RECURSIVE CleanFrom(_, _)
CleanFrom(distances, k) ==
    IF k > Len(distances) THEN <<>>
    ELSE (IF Keeps(distances[k][2])
          THEN <<<<distances[k][1], ToFloat(distances[k][2]).val>>>>
          ELSE <<>>) \o CleanFrom(distances, k + 1)

\* cleaned, before sorting
Cleaned(distances) == CleanFrom(distances, 1)

\* t goes before the first element whose score is smaller: equal scores keep
\* their original order
RECURSIVE InsertDesc(_, _)
InsertDesc(sorted, t) ==
    IF sorted = <<>> THEN <<t>>
    ELSE IF FloatLT(Head(sorted)[2], t[2]) THEN <<t>> \o sorted
    ELSE <<Head(sorted)>> \o InsertDesc(Tail(sorted), t)

\* t goes before the first element whose score is not greater: equal scores
\* end up in reverse order
RECURSIVE InsertDescUnstable(_, _)
InsertDescUnstable(sorted, t) ==
    IF sorted = <<>> THEN <<t>>
    ELSE IF ~FloatLT(t[2], Head(sorted)[2]) THEN <<t>> \o sorted
    ELSE <<Head(sorted)>> \o InsertDescUnstable(Tail(sorted), t)

RECURSIVE SortFrom(_, _, _)
SortFrom(cleaned, k, acc) ==
    IF k > Len(cleaned) THEN acc
    ELSE SortFrom(cleaned, k + 1, InsertDesc(acc, cleaned[k]))

RECURSIVE SortUnstableFrom(_, _, _)
SortUnstableFrom(cleaned, k, acc) ==
    IF k > Len(cleaned) THEN acc
    ELSE SortUnstableFrom(cleaned, k + 1, InsertDescUnstable(acc, cleaned[k]))

\* mutant: sorted ascending and then reversed, which reverses ties
SortDescReversedTies(cleaned) == SortUnstableFrom(cleaned, 1, <<>>)

\* mutant: the sort is lost
SortDescNone(cleaned) == cleaned

\* sorted(cleaned, key=lambda x: x[1], reverse=True): stable, descending
SortDesc(cleaned) == SortFrom(cleaned, 1, <<>>)

\* mutant: the seed is not removed
RemoveSeedNot(cleaned, movie_index) == cleaned

\* [t for t in cleaned if t[0] != movie_index]
RemoveSeed(cleaned, movie_index) ==
    SelectSeq(cleaned, LAMBDA t : t[1] # movie_index)

\* cleaned[:k]
Take(s, k) == SubSeq(s, 1, Min(k, Len(s)))

\* mutant: the cut is made before the seed is removed
TopNCutFirst(cleaned, movie_index) == RemoveSeed(Take(cleaned, TopK), movie_index)

\* lines 457-459
TopN(cleaned, movie_index) == Take(RemoveSeed(cleaned, movie_index), TopK)

\* fetch_poster_from_tmdb: `down` holds the ids for which the metadata service
\* fails or has no poster_path in this call
FetchPoster(movie_id, down) ==
    IF movie_id = NoneId THEN PLACEHOLDER
    ELSE IF movie_id \in down THEN PLACEHOLDER
    ELSE TmdbPoster(movie_id)

\* lines 470-472
PosterOf(movie_id, down) ==
    IF FetchPoster(movie_id, down) = PLACEHOLDER
    THEN LOCAL_FALLBACK_POSTER
    ELSE FetchPoster(movie_id, down)

\* mutant: an entry without a poster is skipped
EmittedWithPoster(top_n, ms, down) ==
    SelectSeq(top_n, LAMBDA t : /\ t[1] >= 0 /\ t[1] < Len(ms)
                                /\ PosterOf(ms[t[1] + 1].movie_id, down) # LOCAL_FALLBACK_POSTER)

\* the entries of top_n the loop of lines 463-473 does not skip
Emitted(top_n, ms, down) ==
    SelectSeq(top_n, LAMBDA t : t[1] >= 0 /\ t[1] < Len(ms))

\* return [], []
EmptyResult == [titles |-> <<>>, posters |-> <<>>, idx |-> <<>>]

\* the loop of lines 461-475 over the entries it keeps
Collect(em, ms, down) ==
    [titles |-> [k \in 1..Len(em) |-> ms[em[k][1] + 1].title],
     posters |-> [k \in 1..Len(em) |-> PosterOf(ms[em[k][1] + 1].movie_id, down)],
     idx |-> [k \in 1..Len(em) |-> em[k][1]]]

\* recommend(movie)
recommend(ms, sim, movie, down) ==
    IF ~sim.found \/ Len(ms) = 0 THEN EmptyResult
    ELSE IF FindIdxs(ms, movie) = <<>> THEN EmptyResult
    ELSE LET movie_index == FirstMatch(FindIdxs(ms, movie)) IN
         IF ~HasRow(sim, movie_index) THEN EmptyResult
         ELSE LET distances == Distances(sim.rows[movie_index + 1], Len(ms))
                  cleaned == SortDesc(Cleaned(distances))
                  top_n == TopN(cleaned, movie_index)
              IN Collect(Emitted(top_n, ms, down), ms, down)

(***************************************************************************)
(* check_alignment(), lines 223-238.                                       *)
(***************************************************************************)
\* mutant: only a matrix longer than the catalog is reported
AlignmentMsgLongerOnly(lm, l) == IF l > lm THEN MismatchDiag ELSE NoDiag

\* msg of check_alignment when len(similarity) = l and len(movies) = lm
AlignmentMsg(lm, l) == IF l # lm THEN MismatchDiag ELSE NoDiag

\* (len_sim, diag_msg); len_sim is -1 where the code returns None
check_alignment(ms, sim) ==
    IF ~sim.found THEN <<-1, NotFoundDiag>>
    ELSE <<Len(sim.rows), AlignmentMsg(Len(ms), Len(sim.rows))>>

(***************************************************************************)
(* The button handler, lines 483-526.                                      *)
(***************************************************************************)
\* rec_movie_id of lines 491-493: the movie_id of the first item titled `name`
RecMovieId(ms, name) ==
    IF FindFrom(ms, name, 1) = <<>> THEN NoneId
    ELSE ms[FindFrom(ms, name, 1)[1] + 1].movie_id

\* one card per name: the id its details, providers and trailer are fetched
\* with, and the poster recommend() returned for it
RenderedCards(ms, ns, ps) ==
    [k \in 1..Len(ns) |-> [name |-> ns[k],
                           rec_movie_id |-> RecMovieId(ms, ns[k]),
                           poster_url |-> IF k <= Len(ps) THEN ps[k]
                                          ELSE LOCAL_FALLBACK_POSTER]]

(***************************************************************************)
(* Inputs: catalogs and matrices the pickles can hold.                     *)
(***************************************************************************)
TitleNames == <<"A", "B", "C", "D", "E", "F", "G", "H", "I", "J">>

\* movies built from titles; without a movie_id column every id is None
Catalog(titles, hasIds) ==
    [i \in 1..Len(titles) |->
        [title |-> titles[i], movie_id |-> IF hasIds THEN 100 + i ELSE NoneId]]

\* catalogs of n items with pairwise distinct titles
DistinctTitles(n) == [i \in 1..n |-> TitleNames[i]]

\* a matrix row: a list or a 1-D array of cells, or a container of length 1
\* around the real row
Row(kind, wrapped, cells) == [kind |-> kind, wrapped |-> wrapped, cells |-> cells]

\* the rows other than the one chosen freely: finite scores that differ
\* from one row to the next
OtherCells(i, len) == [j \in 1..len |-> Num(1 + ((i + j) % 2))]

\* a matrix of r rows of r cells whose row q is `row`
Matrix(r, q, row) ==
    [found |-> TRUE,
     rows |-> [i \in 1..r |-> IF i = q THEN row
                              ELSE Row(row.kind, row.wrapped, OtherCells(i, r))]]

\* similarity.pkl could not be loaded
NoSimilarity == [found |-> FALSE, rows |-> <<>>]

\* the rows chosen freely: the first and the last
FreeRows(r) == {1, r}

FiniteCells == {Num(1), Num(2)}
AllCells == {NoneCell, NaNCell, InfCell, NegInfCell, StrCell, Num(1), NumStr(2)}

\* the positions of a long row that may hold a missing cell
HolePositions(n) == {j \in 1..n : j % 2 = 0}

\* `scores` with None at the positions of `holes`
WithHoles(scores, holes) ==
    [j \in 1..Len(scores) |-> IF j \in holes THEN NoneCell ELSE scores[j]]

InitControl ==
    /\ len_sim = -1
    /\ diag_msg = NoDiag
    /\ pc = "start"
    /\ selected_movie = NoSelection
    /\ names = <<>>
    /\ posters = <<>>
    /\ rec_idx = <<>>
    /\ cards = <<>>
    /\ rerun = FALSE

\* small catalogs with repeated titles, with and without ids, and a square
\* matrix of lists
Init ==
    /\ \E n \in 1..MaxN, hasIds \in BOOLEAN :
         /\ \E titles \in [1..n -> {"A", "B"}] : movies = Catalog(titles, hasIds)
         /\ \E q \in FreeRows(n), cells \in [1..n -> FiniteCells] :
              similarity = Matrix(n, q, Row("list", FALSE, cells))
    /\ InitControl

\* catalogs with distinct titles; no matrix, or a matrix of any row count from
\* 0 to one more than the largest catalog, in every row shape
InitShapes ==
    /\ \E n \in 0..MaxN : movies = Catalog(DistinctTitles(n), FALSE)
    /\ \/ similarity = NoSimilarity
       \/ similarity = [found |-> TRUE, rows |-> <<>>]
       \/ \E r \in 1..(MaxN + 1), kind \in {"list", "ndarray"}, wrapped \in BOOLEAN :
            \E q \in FreeRows(r), cells \in [1..r -> FiniteCells] :
              similarity = Matrix(r, q, Row(kind, wrapped, cells))
    /\ InitControl

\* small catalogs with distinct titles and a square matrix of lists whose free
\* row holds every kind of cell
InitCells ==
    /\ \E n \in 1..MaxN :
         /\ movies = Catalog(DistinctTitles(n), FALSE)
         /\ \E q \in FreeRows(n), cells \in [1..n -> AllCells] :
              similarity = Matrix(n, q, Row("list", FALSE, cells))
    /\ InitControl

\* a catalog with more candidates than the cut keeps: finite scores, with
\* missing cells at some of the even positions
InitTop ==
    /\ movies = Catalog(DistinctTitles(MaxLong), FALSE)
    /\ \E scores \in [1..MaxLong -> FiniteCells], holes \in SUBSET HolePositions(MaxLong) :
         similarity = Matrix(MaxLong, 1, Row("ndarray", FALSE, WithHoles(scores, holes)))
    /\ InitControl

(***************************************************************************)
(* Actions.                                                                *)
(***************************************************************************)
\* module load: len_movies, len_sim, diag_msg = check_alignment()
CheckAlignment ==
    /\ pc = "start"
    /\ len_sim' = check_alignment(movies, similarity)[1]
    /\ diag_msg' = check_alignment(movies, similarity)[2]
    /\ pc' = "idle"
    /\ UNCHANGED <<movies, similarity, selected_movie, names, posters, rec_idx, cards, rerun>>

\* the ids of the catalog
MovieIds == {movies[i].movie_id : i \in 1..Len(movies)} \ {NoneId}

\* the titles recommend() can be called with
Queries == {movies[i].title : i \in 1..Len(movies)} \cup {UnknownTitle}

\* a click on "Recommend": names, posters = recommend(selected_movie_name)
Recommend(movie, down) ==
    /\ pc = "idle"
    /\ \E r \in {recommend(movies, similarity, movie, down)} :
         /\ names' = r.titles
         /\ posters' = r.posters
         /\ rec_idx' = r.idx
         /\ rerun' = (selected_movie = movie /\ r.posters # posters)
         /\ pc' = IF r.titles = <<>> THEN "idle" ELSE "render"
    /\ selected_movie' = movie
    /\ cards' = <<>>
    /\ UNCHANGED <<movies, similarity, len_sim, diag_msg>>

\* the else branch of the handler: one card per name
RenderCards ==
    /\ pc = "render"
    /\ cards' = RenderedCards(movies, names, posters)
    /\ pc' = "idle"
    /\ UNCHANGED <<movies, similarity, len_sim, diag_msg, selected_movie,
                   names, posters, rec_idx, rerun>>

Next ==
    \/ CheckAlignment
    \/ \E movie \in Queries, down \in SUBSET MovieIds : Recommend(movie, down)
    \/ RenderCards

Spec == Init /\ [][Next]_vars
SpecShapes == InitShapes /\ [][Next]_vars
SpecCells == InitCells /\ [][Next]_vars
SpecTop == InitTop /\ [][Next]_vars

(***************************************************************************)
(* Vocabulary of the properties, stated on the inputs and not through the  *)
(* steps of recommend().                                                   *)
(***************************************************************************)
Called == selected_movie # NoSelection

\* the indices of the catalog items titled like the query
Matches == {i \in 0..(Len(movies) - 1) : movies[i + 1].title = selected_movie}

\* recommend() was called with a title of the catalog
Resolved == Called /\ Matches # {}

\* the lowest index among the items titled like the query
QueryIndex == CHOOSE i \in Matches : \A j \in Matches : i <= j

\* the matrix has a row for the query index
RowRead == similarity.found /\ QueryIndex + 1 <= Len(similarity.rows)

QueryRow == similarity.rows[QueryIndex + 1]

\* the query row is a plain sequence of cells
FlatRow == ~QueryRow.wrapped

CellAt(j) == QueryRow.cells[j + 1]

ScoreAt(j) == ToFloat(CellAt(j)).val

\* the cells that are numbers: finite or infinite, given as numbers or as text
NumericTags == {"num", "numstr", "inf", "-inf"}

\* the candidates of the query row with a numeric cell, the query's own excepted
Valid ==
    {j \in 0..(Len(QueryRow.cells) - 1) : j # QueryIndex /\ CellAt(j).tag \in NumericTags}

\* how many valid candidates go before j: a greater score, or the same score
\* and a lower index
Rank(j) ==
    Cardinality({i \in Valid : \/ FloatLT(ScoreAt(j), ScoreAt(i))
                               \/ (ScoreAt(i) = ScoreAt(j) /\ i < j)})

\* the candidate indices of the entries returned
RecSet == {rec_idx[k] : k \in DOMAIN rec_idx}

Mismatch == similarity.found /\ Len(similarity.rows) # Len(movies)

C2_SelfExclusion == Resolved => QueryIndex \notin RecSet

\* the query's own cell is +infinity, the best score there is, and the
\* result is not empty
C2_Witness ==
    /\ Resolved
    /\ RowRead
    /\ CellAt(QueryIndex) = InfCell
    /\ names # <<>>

C4_Descending ==
    (Resolved /\ RowRead) =>
        \A k \in 1..(Len(rec_idx) - 1) :
            ~FloatLT(ScoreAt(rec_idx[k]), ScoreAt(rec_idx[k + 1]))

\* a result that puts a higher index before a lower one because of its score
C4_Witness ==
    /\ Resolved
    /\ RowRead
    /\ \E k \in 1..(Len(rec_idx) - 1) :
         /\ rec_idx[k] > rec_idx[k + 1]
         /\ FloatLT(ScoreAt(rec_idx[k + 1]), ScoreAt(rec_idx[k]))

(***************************************************************************)
(* C5                                                                      *)
(***************************************************************************)
\* C5: two returned candidates with equal scores appear in ascending index
\* order, and of two valid candidates with equal scores the one with the
\* higher index is returned only if the one with the lower index is.
C5_TieOrder ==
    (Resolved /\ RowRead /\ FlatRow) =>
        /\ \A k, l \in DOMAIN rec_idx :
             (k < l /\ ScoreAt(rec_idx[k]) = ScoreAt(rec_idx[l])) => rec_idx[k] < rec_idx[l]
        /\ \A j \in RecSet : \A i \in Valid :
             (i < j /\ ScoreAt(i) = ScoreAt(j)) => i \in RecSet

\* a tie across the cut: the last entry kept and a candidate left out have
\* the same score
C5_Witness ==
    /\ Resolved
    /\ RowRead
    /\ Len(rec_idx) = TopK
    /\ \E i \in Valid \ RecSet : ScoreAt(i) = ScoreAt(rec_idx[TopK])

(***************************************************************************)
(* C6                                                                      *)
(***************************************************************************)
\* C6: when the query row has one cell per catalog item, the result has
\* exactly min(5, v) entries, v the number of valid cells other than the
\* query's own; the entries are distinct valid candidates, shown under their
\* own titles, and nothing else is added.
C6_ExactLength ==
    (Resolved /\ RowRead /\ FlatRow /\ Len(QueryRow.cells) = Len(movies)) =>
        /\ Len(rec_idx) = Min(TopK, Cardinality(Valid))
        /\ Len(names) = Len(rec_idx)
        /\ Len(posters) = Len(rec_idx)
        /\ RecSet \subseteq Valid
        /\ Cardinality(RecSet) = Len(rec_idx)
        /\ \A k \in DOMAIN rec_idx : names[k] = movies[rec_idx[k] + 1].title

\* more valid candidates than 5, and exactly 5 returned
C6_Witness ==
    /\ Resolved
    /\ RowRead
    /\ Cardinality(Valid) > TopK
    /\ Len(names) = TopK

(***************************************************************************)
(* C7                                                                      *)
(***************************************************************************)
\* C7: a query title no catalog item carries gives an empty result, whatever
\* the matrix.
C7_UnknownQuery ==
    (Called /\ Matches = {}) =>
        (names = <<>> /\ posters = <<>> /\ rec_idx = <<>> /\ pc = "idle")

\* an unknown title asked of a non-empty catalog with a non-empty matrix
C7_Witness ==
    /\ Called
    /\ Matches = {}
    /\ Len(movies) > 0
    /\ similarity.found
    /\ Len(similarity.rows) > 0

(***************************************************************************)
(* C8                                                                      *)
(***************************************************************************)
\* C8: when several items share the query title, the row ranked is that of
\* the lowest index among them, only that index is excluded, and the other
\* items with that title are candidates like any other.
C8_FirstMatch ==
    (Resolved /\ Cardinality(Matches) > 1 /\ RowRead /\ FlatRow) =>
        /\ QueryIndex \notin RecSet
        /\ RecSet = {j \in Valid : Rank(j) < TopK /\ j < Len(movies)}
        /\ \A k \in 1..(Len(rec_idx) - 1) :
             ~FloatLT(ScoreAt(rec_idx[k]), ScoreAt(rec_idx[k + 1]))

\* another item titled like the query is among the recommendations
C8_Witness ==
    /\ Resolved
    /\ Cardinality(Matches) > 1
    /\ (Matches \ {QueryIndex}) \cap RecSet # {}

(***************************************************************************)
(* C9                                                                      *)
(***************************************************************************)
\* C9: each card shows the title of the catalog item at its candidate index
\* and is enriched with that item's movie_id.
C9_CandidateResolution ==
    cards # <<>> =>
        \A k \in DOMAIN cards :
            /\ cards[k].name = movies[rec_idx[k] + 1].title
            /\ cards[k].rec_movie_id = movies[rec_idx[k] + 1].movie_id

(***************************************************************************)
(* C10                                                                     *)
(***************************************************************************)
\* C10: an invocation of recommend with the same query as the one before it
\* returns the same titles in the same order, whatever the metadata service
\* answers in either.
C10_Determinism ==
    [][(Called /\ selected_movie' = selected_movie) => names' = names]_vars

\* the same query asked again, answered with other posters, and a result
C10_Witness == rerun /\ names # <<>>
====
